---- MODULE Spec2Model ----
(***************************************************************************)
(* Clerk webhook receiver of apps/users: signature check, payload          *)
(* validation, event routing and reconciliation of the local user table.   *)
(*                                                                         *)
(* Encodings.                                                              *)
(*  - A JSON value of the request body is a record tagged by t:            *)
(*    "absent" (key not in the object), "null", "str", "int", "bool",      *)
(*    "list", "obj".  A JSON integer n is kept as the pair (sec, ms) with  *)
(*    n = sec * 1000 + ms, because millisecond epochs exceed 32 bits.      *)
(*  - A Python value of the validated event is a record tagged by t:       *)
(*    "None", "str", "bool".                                               *)
(*  - Columns of the user table are plain strings and booleans.  Every     *)
(*    string drawn below fits the column widths of models.py, so the       *)
(*    backend-dependent enforcement of max_length never decides a step.    *)
(***************************************************************************)
EXTENDS Integers, Sequences, FiniteSets, TLC

VARIABLES
    store,      \* the user table: identifier -> row or Missing
    pc,         \* "idle", "recv" (request in flight), "done" (response sent)
    req,        \* the request being handled by the sequential server
    resp,       \* its response
    before,     \* the table as it was when the handler started
    last,       \* per identifier: the most recent routed sync/delete event
    lst,        \* resolution harness: candidate list
    ptr,        \* resolution harness: primary-id pointer
    out,        \* resolution harness: resolved value
    txs         \* concurrent server: per request, the handler's position

vars == <<store, pc, req, resp, before, last, lst, ptr, out, txs>>

seqVars == <<store, pc, req, resp, before, last>>
resVars == <<lst, ptr, out>>
conVars == <<txs>>

-----------------------------------------------------------------------------
(* JSON values                                                             *)

Absent == [t |-> "absent"]
Null == [t |-> "null"]
JStr(s) == [t |-> "str", s |-> s]
JInt(sec, ms) == [t |-> "int", sec |-> sec, ms |-> ms]
JBool(b) == [t |-> "bool", b |-> b]
JList(items) == [t |-> "list", items |-> items]

(* Python values                                                           *)

PyNone == [t |-> "None"]
PyStr(s) == [t |-> "str", s |-> s]
PyBool(b) == [t |-> "bool", b |-> b]

-----------------------------------------------------------------------------
(* schemas.to_iso: datetime.utcfromtimestamp(value / 1000).isoformat()      *)

Zeros(k) ==
    CASE k <= 0 -> ""
      [] k = 1 -> "0"
      [] k = 2 -> "00"
      [] k = 3 -> "000"
      [] k = 4 -> "0000"
      [] OTHER -> "00000"

Pad(n, width) == Zeros(width - Len(ToString(n))) \o ToString(n)

\* Proleptic Gregorian date of a day count since 1970-01-01, as the text
\* YYYY-MM-DD.  Each step hands its results to the next as arguments.
DateText(y, m, d) == Pad(y, 4) \o "-" \o Pad(m, 2) \o "-" \o Pad(d, 2)

CivilMonth(yoe400, doy, mp) ==
    DateText(yoe400 + (IF mp < 10 THEN 0 ELSE 1),
             IF mp < 10 THEN mp + 3 ELSE mp - 9,
             doy - (153 * mp + 2) \div 5 + 1)

CivilDoy(yoe400, doy) == CivilMonth(yoe400, doy, (5 * doy + 2) \div 153)

CivilYoe(era, doe, yoe) ==
    CivilDoy(yoe + era * 400, doe - (365 * yoe + yoe \div 4 - yoe \div 100))

CivilDoe(era, doe) ==
    CivilYoe(era, doe,
             (doe - doe \div 1460 + doe \div 36524 - doe \div 146096) \div 365)

CivilEra(z, era) == CivilDoe(era, z - era * 146097)

CivilFromDays(days) == CivilEra(days + 719468, (days + 719468) \div 146097)

TimeText(sod) ==
    Pad(sod \div 3600, 2) \o ":" \o Pad((sod % 3600) \div 60, 2) \o ":" \o Pad(sod % 60, 2)

isoformat(sec, ms) ==
    CivilFromDays(sec \div 86400) \o "T" \o TimeText(sec % 86400)
    \o (IF ms = 0 THEN "" ELSE "." \o Pad(ms * 1000, 6))

\* The timestamps drawn are null, integers, booleans (a bool is an int in
\* Python) and strings.
to_iso(value) ==
    CASE value.t = "null" -> PyNone
      [] value.t = "int" -> PyStr(isoformat(value.sec, value.ms))
      [] value.t = "bool" -> PyStr(isoformat(0, IF value.b THEN 1 ELSE 0))
      [] value.t = "str" -> PyStr(value.s)

-----------------------------------------------------------------------------
(* schemas.ClerkEmail / ClerkPhone / ClerkUser / ClerkWebhookEvent.         *)
(* Each validator yields [ok |-> FALSE] or [ok |-> TRUE, v |-> value].      *)

Invalid == [ok |-> FALSE]
Valid(v) == [ok |-> TRUE, v |-> v]

\* id: str  (required, no coercion from other types)
ReqStr(j) == IF j.t = "str" THEN Valid(j.s) ELSE Invalid

\* Faulty variant: integers are coerced to their decimal text.
OptStrCoerceInt(j, default) ==
    CASE j.t = "absent" -> Valid(default)
      [] j.t = "null" -> Valid(PyNone)
      [] j.t = "str" -> Valid(PyStr(j.s))
      [] j.t = "int" -> Valid(PyStr(ToString(j.sec * 1000 + j.ms)))
      [] OTHER -> Invalid

\* Optional[str] = default
OptStr(j, default) ==
    CASE j.t = "absent" -> Valid(default)
      [] j.t = "null" -> Valid(PyNone)
      [] j.t = "str" -> Valid(PyStr(j.s))
      [] OTHER -> Invalid

\* Optional[bool] = False; lax mode coerces 0, 1 and the yes/no words
OptBool(j) ==
    CASE j.t = "absent" -> Valid(PyBool(FALSE))
      [] j.t = "null" -> Valid(PyNone)
      [] j.t = "bool" -> Valid(PyBool(j.b))
      [] j.t = "int" /\ j.sec = 0 /\ j.ms \in {0, 1} -> Valid(PyBool(j.ms = 1))
      [] j.t = "str" /\ j.s \in {"1", "on", "t", "true", "y", "yes"} ->
            Valid(PyBool(TRUE))
      [] j.t = "str" /\ j.s \in {"0", "off", "f", "false", "n", "no"} ->
            Valid(PyBool(FALSE))
      [] OTHER -> Invalid

\* Optional[Union[int, str]] = None with the "before" validator to_iso:
\* the default is not validated, and whatever to_iso returns is None or a str.
convert_timestamps(j) ==
    IF j.t = "absent" THEN Valid(PyNone) ELSE Valid(to_iso(j))

\* A model is valid when every field is; its value collects the fields'.
Collect(fields) ==
    IF \A k \in DOMAIN fields : fields[k].ok
    THEN Valid([k \in DOMAIN fields |-> fields[k].v])
    ELSE Invalid

\* ClerkEmail and ClerkPhone: {id: str, <value>: str}, kept as [id, value]
ClerkContact(j) ==
    IF j.t # "obj" THEN Invalid
    ELSE Collect([id |-> ReqStr(j.id), value |-> ReqStr(j.value)])

\* List[ClerkEmail] = []
ContactList(j) ==
    CASE j.t = "absent" -> Valid(<<>>)
      [] j.t = "list" -> Collect([i \in 1..Len(j.items) |-> ClerkContact(j.items[i])])
      [] OTHER -> Invalid

ClerkUser(j) ==
    IF j.t # "obj" THEN Invalid
    ELSE Collect([id |-> ReqStr(j.id),
                  first_name |-> OptStr(j.first_name, PyStr("")),
                  last_name |-> OptStr(j.last_name, PyStr("")),
                  image_url |-> OptStr(j.image_url, PyStr("")),
                  two_factor_enabled |-> OptBool(j.two_factor_enabled),
                  created_at |-> convert_timestamps(j.created_at),
                  updated_at |-> convert_timestamps(j.updated_at),
                  last_active_at |-> convert_timestamps(j.last_active_at),
                  email_addresses |-> ContactList(j.email_addresses),
                  primary_email_address_id |->
                      OptStr(j.primary_email_address_id, PyNone),
                  phone_numbers |-> ContactList(j.phone_numbers),
                  primary_phone_number_id |->
                      OptStr(j.primary_phone_number_id, PyNone)])

\* json.loads(request.body) followed by ClerkWebhookEvent.model_validate
ClerkWebhookEvent(body) ==
    IF body.t # "object" THEN Invalid
    ELSE Collect([type |-> ReqStr(body.type), data |-> ClerkUser(body.data)])

-----------------------------------------------------------------------------
(* models.User: the user table (views.py and admin.py import it under the  *)
(* name TenantUser)                                                        *)

Ids == {"user_1", "user_2"}

Missing == [t |-> "missing"]

EmptyTable == [i \in Ids |-> Missing]

\* Field defaults of models.User for the columns sync_user does not pass.
NewRow(defaults) ==
    [t |-> "row",
     first_name |-> defaults.first_name,
     last_name |-> defaults.last_name,
     primary_email |-> defaults.primary_email,
     phone_number |-> defaults.phone_number,
     is_creator |-> FALSE,
     is_signedin |-> defaults.is_signedin,
     created_at |-> defaults.created_at,
     updated_at |-> defaults.updated_at,
     last_active_at |-> defaults.last_active_at,
     locked |-> FALSE,
     banned |-> FALSE,
     profile_image |-> defaults.profile_image,
     two_factor_enabled |-> defaults.two_factor_enabled]

\* Faulty variant: the row is replaced by a freshly built one.
UpdatedRowReset(row, defaults) == NewRow(defaults)

\* update_or_create on an existing row: setattr for every key of defaults.
UpdatedRow(row, defaults) ==
    [row EXCEPT !.first_name = defaults.first_name,
                !.last_name = defaults.last_name,
                !.primary_email = defaults.primary_email,
                !.phone_number = defaults.phone_number,
                !.is_signedin = defaults.is_signedin,
                !.created_at = defaults.created_at,
                !.updated_at = defaults.updated_at,
                !.last_active_at = defaults.last_active_at,
                !.profile_image = defaults.profile_image,
                !.two_factor_enabled = defaults.two_factor_enabled]

\* primary_email is declared unique=True: no other row may hold the value.
UniqueEmail(tbl, user_id, email) ==
    \A o \in Ids \ {user_id} : tbl[o] # Missing => tbl[o].primary_email # email

\* TenantUser.objects.update_or_create(user_id=..., defaults=...)
update_or_create(tbl, user_id, defaults) ==
    IF ~UniqueEmail(tbl, user_id, defaults.primary_email)
    THEN [raised |-> TRUE, created |-> FALSE, tbl |-> tbl]
    ELSE IF tbl[user_id] = Missing
    THEN [raised |-> FALSE, created |-> TRUE,
          tbl |-> [tbl EXCEPT ![user_id] = NewRow(defaults)]]
    ELSE [raised |-> FALSE, created |-> FALSE,
          tbl |-> [tbl EXCEPT ![user_id] = UpdatedRow(tbl[user_id], defaults)]]

-----------------------------------------------------------------------------
(* views.py                                                                *)

ok(message) == [status |-> 200, body |-> [message |-> message]]

bad(message) == [status |-> 400, body |-> [error |-> message]]

\* An exception leaving the view: the framework answers 500.
ServerError == [status |-> 500, body |-> [exception |-> "IntegrityError"]]

\* The value of the first entry whose index is in M, or of entry `fallback`.
FirstOf(entries, M, fallback) ==
    IF M = {} THEN PyStr(entries[fallback].value)
    ELSE PyStr(entries[CHOOSE i \in M : \A k \in M : i <= k].value)

\* Faulty variant: the fallback is the last entry.
ResolvePrimaryLast(entries, primary_id) ==
    IF Len(entries) = 0 THEN PyNone
    ELSE FirstOf(entries,
                 {i \in 1..Len(entries) : PyStr(entries[i].id) = primary_id},
                 Len(entries))

\* next((e.value for e in entries if e.id == primary_id), entries[0].value),
\* guarded by "if entries"; None when the list is empty.
ResolvePrimary(entries, primary_id) ==
    IF Len(entries) = 0 THEN PyNone
    ELSE FirstOf(entries,
                 {i \in 1..Len(entries) : PyStr(entries[i].id) = primary_id},
                 1)

\* Python's  x or ""  on an Optional[str]
OrEmpty(x) == IF x.t = "str" THEN x.s ELSE ""

\* Python's  x or False  on an Optional[bool]
OrFalse(x) == IF x.t = "bool" THEN x.b ELSE FALSE

\* The defaults dictionary built by sync_user.
SyncDefaults(user) ==
    [first_name |-> OrEmpty(user.first_name),
     last_name |-> OrEmpty(user.last_name),
     primary_email |->
        OrEmpty(ResolvePrimary(user.email_addresses, user.primary_email_address_id)),
     phone_number |->
        OrEmpty(ResolvePrimary(user.phone_numbers, user.primary_phone_number_id)),
     profile_image |-> OrEmpty(user.image_url),
     two_factor_enabled |-> OrFalse(user.two_factor_enabled),
     is_signedin |-> TRUE,
     created_at |-> OrEmpty(user.created_at),
     updated_at |-> OrEmpty(user.updated_at),
     last_active_at |-> OrEmpty(user.last_active_at)]

\* The response of sync_user for the outcome r of update_or_create;
\* @transaction.atomic: an exception rolls the table back to tbl.
SyncResult(tbl, r) ==
    IF r.raised THEN [resp |-> ServerError, store |-> tbl]
    ELSE [resp |-> ok(IF r.created THEN "User created" ELSE "User updated"),
          store |-> r.tbl]

sync_user(tbl, user) ==
    SyncResult(tbl, update_or_create(tbl, user.id, SyncDefaults(user)))

\* Faulty variant: the filter on user_id is lost.
delete_user_all(tbl, user_id) ==
    [resp |-> ok("User deleted"), store |-> EmptyTable]

delete_user(tbl, user_id) ==
    [resp |-> ok("User deleted"), store |-> [tbl EXCEPT ![user_id] = Missing]]

SignatureHeaders == {"svix-id", "svix-timestamp", "svix-signature"}

\* Webhook(SIGNING_SECRET).verify(request.body, svix_headers) does not raise.
\* Faulty variant: a request lacking a signature header is let through.
verify_lenient(r) == r.signed \/ ~(SignatureHeaders \subseteq r.headers)

verify(r) == SignatureHeaders \subseteq r.headers /\ r.signed

\* Faulty variant: every type that is not a sync is treated as a delete.
route_delete_unknown(tbl, event) ==
    IF event.type \in {"user.created", "user.updated"}
    THEN sync_user(tbl, event.data)
    ELSE delete_user(tbl, event.data.id)

\* Step 3 of post: dispatch on event.type.
route(tbl, event) ==
    IF event.type \in {"user.created", "user.updated"}
    THEN sync_user(tbl, event.data)
    ELSE IF event.type = "user.deleted"
    THEN delete_user(tbl, event.data.id)
    ELSE [resp |-> ok("Event ignored"), store |-> tbl]

\* Steps 2 and 3 of post, given the outcome of validation.
dispatch(tbl, event) ==
    IF ~event.ok THEN [resp |-> bad("Invalid payload format"), store |-> tbl]
    ELSE route(tbl, event.v)

post(tbl, r) ==
    IF ~verify(r) THEN [resp |-> bad("Invalid webhook signature"), store |-> tbl]
    ELSE dispatch(tbl, ClerkWebhookEvent(r.body))

-----------------------------------------------------------------------------
(* Requests the provider (or anyone else) can send                         *)

MaxAddrs == 2
MaxAdminEdits == 1

Contact(id, value) == [t |-> "obj", id |-> JStr(id), value |-> JStr(value)]

EmailPool == {Contact("email_1", "test@example.com"),
              Contact("email_2", "alt@example.com")}

\* Sequences over pool, of length at most n, that repeat no entry.
RECURSIVE DistinctSeqs(_, _)
DistinctSeqs(pool, n) ==
    IF n = 0 \/ pool = {} THEN {<<>>}
    ELSE {<<>>} \cup UNION {{<<e>> \o s : s \in DistinctSeqs(pool \ {e}, n - 1)}
                            : e \in pool}

EmailLists == {JList(s) : s \in DistinctSeqs(EmailPool, MaxAddrs)} \cup {Absent}

EmailPointers == {Absent, JStr("email_2")}

\* The user snapshot of tests.py setUp.
ProfileTest ==
    [first_name |-> JStr("Test"),
     last_name |-> JStr("User"),
     image_url |-> JStr("http://example.com/image.jpg"),
     two_factor_enabled |-> JBool(FALSE),
     created_at |-> JInt(1672531200, 0),
     updated_at |-> JInt(1672531200, 0),
     last_active_at |-> JInt(1672531200, 0),
     phone_numbers |-> JList(<<Contact("phone_1", "+1234567890")>>),
     primary_phone_number_id |-> JStr("phone_1")]

\* Only the identifier is sent (the shape of a user.deleted payload).
ProfileBare ==
    [first_name |-> Absent,
     last_name |-> Absent,
     image_url |-> Absent,
     two_factor_enabled |-> Absent,
     created_at |-> Absent,
     updated_at |-> Absent,
     last_active_at |-> Absent,
     phone_numbers |-> Absent,
     primary_phone_number_id |-> Absent]

\* Nulls, a coerced flag, a string timestamp and a stale phone pointer.
ProfileAlt ==
    [first_name |-> Null,
     last_name |-> JStr("Doe"),
     image_url |-> Null,
     two_factor_enabled |-> JInt(0, 1),
     created_at |-> JStr("2023-01-01"),
     updated_at |-> Null,
     last_active_at |-> JInt(1700000000, 500),
     phone_numbers |-> JList(<<Contact("phone_2", "+1987654321"),
                               Contact("phone_1", "+1234567890")>>),
     primary_phone_number_id |-> JStr("phone_9")]

Profiles == {ProfileTest, ProfileBare, ProfileAlt}

Data(id, p, emails, pointer) ==
    [t |-> "obj",
     id |-> id,
     first_name |-> p.first_name,
     last_name |-> p.last_name,
     image_url |-> p.image_url,
     two_factor_enabled |-> p.two_factor_enabled,
     created_at |-> p.created_at,
     updated_at |-> p.updated_at,
     last_active_at |-> p.last_active_at,
     email_addresses |-> emails,
     primary_email_address_id |-> pointer,
     phone_numbers |-> p.phone_numbers,
     primary_phone_number_id |-> p.primary_phone_number_id]

Envelope(type, data) == [t |-> "object", type |-> type, data |-> data]

\* signed: the svix-signature value matches the body, secret and timestamp.
Signed(body) == [headers |-> SignatureHeaders, signed |-> TRUE, body |-> body]

SyncTypes == {"user.created", "user.updated"}
OtherTypes == {"session.created", "User.Deleted"}

SyncBodies ==
    {Envelope(JStr(ty), Data(JStr(id), p, l, q)) :
        ty \in SyncTypes, id \in Ids, p \in Profiles, l \in EmailLists,
        q \in EmailPointers}

DeleteBodies ==
    {Envelope(JStr("user.deleted"), Data(JStr(id), p, Absent, Absent)) :
        id \in Ids, p \in {ProfileBare, ProfileTest}}

IgnoredBodies ==
    {Envelope(JStr(ty), Data(JStr(id), ProfileAlt, Absent, Absent)) :
        ty \in OtherTypes, id \in Ids}

OneEmail == JList(<<Contact("email_1", "test@example.com")>>)

\* Data objects that break the schema in one place each.
BadData ==
    {Absent,
     JStr("user_1"),
     Data(Absent, ProfileTest, OneEmail, Absent),
     Data(Null, ProfileBare, Absent, Absent),
     Data(JInt(0, 7), ProfileBare, Absent, Absent),
     Data(JStr("user_1"), [ProfileTest EXCEPT !.first_name = JInt(0, 7)],
          OneEmail, Absent),
     Data(JStr("user_1"), [ProfileTest EXCEPT !.two_factor_enabled = JStr("maybe")],
          OneEmail, Absent),
     Data(JStr("user_1"), ProfileTest, Null, Absent),
     Data(JStr("user_1"), ProfileTest,
          JList(<<[t |-> "obj", id |-> Absent, value |-> JStr("test@example.com")]>>),
          Absent),
     Data(JStr("user_1"), ProfileTest, OneEmail, JInt(0, 1))}

InvalidBodies ==
    {[t |-> "notjson"], [t |-> "array"]}
    \cup {Envelope(ty, Data(JStr("user_1"), ProfileTest, OneEmail, Absent)) :
            ty \in {Absent, Null, JInt(0, 1)}}
    \cup {Envelope(JStr(ty), d) :
            ty \in {"user.created", "user.deleted", "session.created"}, d \in BadData}

\* Bodies sent with a header set or signature that verification refuses.
UnverifiedBodies ==
    {Envelope(JStr("user.created"), Data(JStr("user_1"), ProfileTest, OneEmail, Absent)),
     Envelope(JStr("user.updated"), Data(JStr("user_1"), ProfileAlt, Absent, Absent)),
     Envelope(JStr("user.deleted"), Data(JStr("user_1"), ProfileBare, Absent, Absent)),
     [t |-> "notjson"]}

UnverifiedReqs ==
    {[headers |-> h, signed |-> sg, body |-> b] :
        h \in {SignatureHeaders \ {x} : x \in SignatureHeaders} \cup {{}},
        sg \in {TRUE}, b \in UnverifiedBodies}
    \cup {[headers |-> SignatureHeaders, signed |-> FALSE, body |-> b] :
            b \in UnverifiedBodies}

Requests ==
    {Signed(b) : b \in SyncBodies \cup DeleteBodies \cup IgnoredBodies \cup InvalidBodies}
    \cup UnverifiedReqs

-----------------------------------------------------------------------------
(* The sequential server: one request at a time                            *)

NoReq == [headers |-> {}, signed |-> FALSE, body |-> [t |-> "none"]]
NoResp == [status |-> 0, body |-> [none |-> TRUE]]
NoEvent == [t |-> "none"]

\* A request drawn from S arrives.
ReceiveFrom(S) ==
    /\ pc = "idle"
    /\ \E r \in S : req' = r
    /\ pc' = "recv"
    /\ UNCHANGED <<store, resp, before>>

Receive == ReceiveFrom(Requests) /\ UNCHANGED last

\* ClerkWebhook.post runs to its response.
HandleStep ==
    /\ pc = "recv"
    /\ \E r \in {post(store, req)} :
          /\ store' = r.store
          /\ resp' = r.resp
    /\ before' = store
    /\ pc' = "done"
    /\ UNCHANGED req

Handle == HandleStep /\ UNCHANGED last

\* The response has been delivered.
Close ==
    /\ pc = "done"
    /\ pc' = "idle"
    /\ req' = NoReq
    /\ resp' = NoResp
    /\ before' = EmptyTable
    /\ UNCHANGED store

AdminFlags == {"is_creator", "locked", "banned"}

EditCount(tbl) ==
    Cardinality({<<i, f>> \in Ids \X AdminFlags : tbl[i] # Missing /\ tbl[i][f]})

\* A staff member flips a flag of a row in the admin site.
AdminEdit ==
    /\ pc = "idle"
    /\ EditCount(store) < MaxAdminEdits
    /\ \E i \in Ids, f \in AdminFlags :
          /\ store[i] # Missing
          /\ ~store[i][f]
          /\ store' = [store EXCEPT ![i][f] = TRUE]
    /\ UNCHANGED <<pc, req, resp, before>>

SeqInit ==
    /\ store = EmptyTable
    /\ pc = "idle"
    /\ req = NoReq
    /\ resp = NoResp
    /\ before = EmptyTable
    /\ last = [i \in Ids |-> NoEvent]

ResIdle == lst = <<>> /\ ptr = PyNone /\ out = PyNone
ConIdle == txs = <<>>

Init == SeqInit /\ ResIdle /\ ConIdle

Next ==
    \/ Receive /\ UNCHANGED <<resVars, conVars>>
    \/ Handle /\ UNCHANGED <<resVars, conVars>>
    \/ Close /\ UNCHANGED <<last, resVars, conVars>>
    \/ AdminEdit /\ UNCHANGED <<last, resVars, conVars>>

Spec == Init /\ [][Next]_vars

-----------------------------------------------------------------------------
(* The sequential server with the history of routed events                 *)

TrackedSyncBodies ==
    {Envelope(JStr(ty), Data(JStr(id), p, l, Absent)) :
        ty \in SyncTypes, id \in Ids, p \in {ProfileTest, ProfileBare},
        l \in {Absent, OneEmail}}

TrackedRequests ==
    {Signed(b) : b \in TrackedSyncBodies \cup DeleteBodies \cup IgnoredBodies}
    \cup {Signed([t |-> "notjson"])}
    \cup UnverifiedReqs

\* The event the router hands to the reconciler, when it does.
RoutedEvent(event) ==
    IF ~event.ok THEN NoEvent
    ELSE IF event.v.type \in SyncTypes
    THEN [t |-> "sync", id |-> event.v.data.id, fields |-> SyncDefaults(event.v.data)]
    ELSE IF event.v.type = "user.deleted"
    THEN [t |-> "deleted", id |-> event.v.data.id]
    ELSE NoEvent

Routed(r) == IF ~verify(r) THEN NoEvent ELSE RoutedEvent(ClerkWebhookEvent(r.body))

Record(e) == IF e = NoEvent THEN last ELSE [last EXCEPT ![e.id] = e]

ReceiveTracked == ReceiveFrom(TrackedRequests) /\ UNCHANGED last

HandleTracked == HandleStep /\ last' = Record(Routed(req))

NextHist ==
    \/ ReceiveTracked /\ UNCHANGED <<resVars, conVars>>
    \/ HandleTracked /\ UNCHANGED <<resVars, conVars>>
    \/ Close /\ UNCHANGED <<last, resVars, conVars>>
    \/ AdminEdit /\ UNCHANGED <<last, resVars, conVars>>

SpecHist == Init /\ [][NextHist]_vars

-----------------------------------------------------------------------------
(* The resolution harness: sync_user's primary-contact resolution applied  *)
(* to validated contact lists, repeated ids included.                      *)

ContactIds == {"email_1", "email_2"}
ContactValues == {"test@example.com", "alt@example.com"}
Contacts == [id : ContactIds, value : ContactValues]

ContactSeqs == UNION {[1..n -> Contacts] : n \in 0..MaxAddrs}

Pointers == {PyNone} \cup {PyStr(i) : i \in ContactIds \cup {"email_9"}}

Pending == [t |-> "pending"]

ResInit ==
    /\ lst \in ContactSeqs
    /\ ptr \in Pointers
    /\ out = Pending

\* primary_email = next(...) if user.email_addresses else None; then  or "".
Resolve ==
    /\ out = Pending
    /\ out' = PyStr(OrEmpty(ResolvePrimary(lst, ptr)))
    /\ UNCHANGED <<lst, ptr>>

SeqIdle == SeqInit

InitResolve == SeqIdle /\ ResInit /\ ConIdle

NextResolve == Resolve /\ UNCHANGED <<seqVars, conVars>>

SpecResolve == InitResolve /\ [][NextResolve]_vars

-----------------------------------------------------------------------------
(* The concurrent server: requests for one identifier handled in parallel. *)
(* A step is one statement sent to the database.  sync_user runs inside    *)
(* transaction.atomic, so its writes reach the table at commit;            *)
(* update_or_create reads with SELECT ... FOR UPDATE, inserts when it      *)
(* found no row, reads again when the insert hits an existing key, and     *)
(* saves the loaded object otherwise.  delete_user is a single DELETE.     *)
(* The database runs READ COMMITTED and honours row locks.                 *)

MaxConc == 3

Slots == 1..MaxConc

Target == "user_1"

UserOf(data) == ClerkUser(data).v

ConcUsers ==
    {UserOf(Data(JStr(Target), ProfileTest, OneEmail, Absent)),
     UserOf(Data(JStr(Target), ProfileAlt, Absent, Absent))}

NoUser == [id |-> Target]

NewTx(op, user) ==
    [op |-> op, user |-> user, pc |-> "start", obj |-> Missing,
     created |-> FALSE, resp |-> NoResp]

ConcTxs ==
    {NewTx("sync", u) : u \in ConcUsers} \cup {NewTx("delete", NoUser)}

\* The row a staff member locked, synced earlier from a bare payload.
SeedRow ==
    [NewRow(SyncDefaults(UserOf(Data(JStr(Target), ProfileBare,
                                     JList(<<Contact("email_2", "alt@example.com")>>),
                                     Absent))))
        EXCEPT !.locked = TRUE]

ConInit ==
    /\ txs \in [Slots -> ConcTxs]
    /\ store \in {EmptyTable, [EmptyTable EXCEPT ![Target] = SeedRow]}
    /\ before = store
    /\ pc = "idle"
    /\ req = NoReq
    /\ resp = NoResp
    /\ last = [i \in Ids |-> NoEvent]

\* Faulty variant: the row is read without FOR UPDATE.
RowLockedNever(s) == FALSE

\* Another transaction holds the lock of the committed row.

RowLocked(s) ==
    \E o \in Slots \ {s} :
        txs[o].op = "sync" /\ txs[o].pc \in {"save", "commit"} /\ ~txs[o].created

\* Another transaction has inserted the key and not yet committed.
InsertPending(s) ==
    \E o \in Slots \ {s} :
        txs[o].op = "sync" /\ txs[o].pc = "commit" /\ txs[o].created

\* self.select_for_update().get(user_id=...)
TxSelect(s) ==
    /\ txs[s].op = "sync"
    /\ txs[s].pc = "start"
    /\ IF store[Target] = Missing
       THEN txs' = [txs EXCEPT ![s].pc = "insert"]
       ELSE /\ ~RowLocked(s)
            /\ txs' = [txs EXCEPT ![s].pc = "save", ![s].obj = store[Target]]
    /\ UNCHANGED store

\* self.create(**params) inside a savepoint
TxInsert(s) ==
    /\ txs[s].op = "sync"
    /\ txs[s].pc = "insert"
    /\ IF store[Target] # Missing
       THEN txs' = [txs EXCEPT ![s].pc = "reget"]
       ELSE /\ ~InsertPending(s)
            /\ txs' = [txs EXCEPT ![s].pc = "commit", ![s].created = TRUE,
                                  ![s].obj = NewRow(SyncDefaults(txs[s].user))]
    /\ UNCHANGED store

\* except IntegrityError: return self.get(**kwargs), False; or raise again
TxReget(s) ==
    /\ txs[s].op = "sync"
    /\ txs[s].pc = "reget"
    /\ IF store[Target] = Missing
       THEN txs' = [txs EXCEPT ![s].pc = "done", ![s].resp = ServerError]
       ELSE /\ ~RowLocked(s)
            /\ txs' = [txs EXCEPT ![s].pc = "save", ![s].obj = store[Target]]
    /\ UNCHANGED store

\* setattr(obj, k, v) for the defaults, then obj.save()
TxSave(s) ==
    /\ txs[s].op = "sync"
    /\ txs[s].pc = "save"
    /\ txs' = [txs EXCEPT ![s].pc = "commit",
                          ![s].obj = UpdatedRow(txs[s].obj, SyncDefaults(txs[s].user))]
    /\ UNCHANGED store

\* transaction.atomic exits: the writes become visible, the locks go.
TxCommit(s) ==
    /\ txs[s].op = "sync"
    /\ txs[s].pc = "commit"
    /\ store' = [store EXCEPT ![Target] = txs[s].obj]
    /\ txs' = [txs EXCEPT ![s].pc = "done",
                          ![s].resp = ok(IF txs[s].created THEN "User created"
                                         ELSE "User updated")]

\* TenantUser.objects.filter(user_id=user_id).delete()
TxDelete(s) ==
    /\ txs[s].op = "delete"
    /\ txs[s].pc = "start"
    /\ store[Target] # Missing => ~RowLocked(s)
    /\ store' = delete_user(store, Target).store
    /\ txs' = [txs EXCEPT ![s].pc = "done", ![s].resp = delete_user(store, Target).resp]

InitConc == ConInit /\ ResIdle

NextConc ==
    \/ \E s \in Slots : TxSelect(s) /\ UNCHANGED <<pc, req, resp, before, last, resVars>>
    \/ \E s \in Slots : TxInsert(s) /\ UNCHANGED <<pc, req, resp, before, last, resVars>>
    \/ \E s \in Slots : TxReget(s) /\ UNCHANGED <<pc, req, resp, before, last, resVars>>
    \/ \E s \in Slots : TxSave(s) /\ UNCHANGED <<pc, req, resp, before, last, resVars>>
    \/ \E s \in Slots : TxCommit(s) /\ UNCHANGED <<pc, req, resp, before, last, resVars>>
    \/ \E s \in Slots : TxDelete(s) /\ UNCHANGED <<pc, req, resp, before, last, resVars>>

SpecConc == InitConc /\ [][NextConc]_vars

-----------------------------------------------------------------------------
(* What the claims speak of                                                *)

Done == pc = "done"

SignedOf(bodies) == {Signed(b) : b \in bodies}

\* The identifier a well-formed body names.
IdOf(r) == r.body.data.id.s

OthersUnchanged(id) == \A o \in Ids \ {id} : store[o] = before[o]

\* The column text of an optional string of the payload.
TextOf(j) == IF j.t = "str" THEN j.s ELSE ""

\* The column text of a timestamp of the payload.
StampOf(j) ==
    CASE j.t = "int" -> isoformat(j.sec, j.ms)
      [] j.t = "str" -> j.s
      [] OTHER -> ""

\* The primary contact of a payload list under a payload pointer.
PrimaryOf(list, pointer) ==
    IF list.t # "list" \/ Len(list.items) = 0 THEN ""
    ELSE LET M == {i \in 1..Len(list.items) : list.items[i].id = pointer}
         IN  IF M = {} THEN list.items[1].value.s
             ELSE list.items[CHOOSE i \in M : \A k \in M : i <= k].value.s

\* Every mapped column of row carries what payload d alone determines.
RowMatches(row, d) ==
    /\ row # Missing
    /\ row.first_name = TextOf(d.first_name)
    /\ row.last_name = TextOf(d.last_name)
    /\ row.primary_email = PrimaryOf(d.email_addresses, d.primary_email_address_id)
    /\ row.phone_number = PrimaryOf(d.phone_numbers, d.primary_phone_number_id)
    /\ row.profile_image = TextOf(d.image_url)
    /\ row.two_factor_enabled = (d.two_factor_enabled \in {JBool(TRUE), JInt(0, 1)})
    /\ row.is_signedin
    /\ row.created_at = StampOf(d.created_at)
    /\ row.updated_at = StampOf(d.updated_at)
    /\ row.last_active_at = StampOf(d.last_active_at)

SameFlags(r1, r2) ==
    /\ r1.is_creator = r2.is_creator
    /\ r1.locked = r2.locked
    /\ r1.banned = r2.banned

CreateCase ==
    /\ Done
    /\ req \in SignedOf(SyncBodies)
    /\ req.body.type = JStr("user.created")
    /\ before[IdOf(req)] = Missing

UpdateCase ==
    /\ Done
    /\ req \in SignedOf(SyncBodies)
    /\ before[IdOf(req)] # Missing

\* C1: a valid, signed "user.created" for an identifier not in the table is
\* answered 200 "User created", and the table then holds a row for the
\* identifier with every mapped column taken from the payload and
\* is_signedin true, whatever rows the table holds for other identifiers.
C1_CreatedStored ==
    CreateCase =>
        /\ resp = ok("User created")
        /\ RowMatches(store[IdOf(req)], req.body.data)

\* C2: a valid, signed "user.created" or "user.updated" for an identifier in
\* the table is answered 200 "User updated", and every mapped column of its
\* row equals what the new payload alone determines.
C2_UpdatedOverwritten ==
    UpdateCase =>
        /\ resp = ok("User updated")
        /\ RowMatches(store[IdOf(req)], req.body.data)

DeleteCase == Done /\ req \in SignedOf(DeleteBodies)

\* C3: a valid, signed "user.deleted" is always answered 200 "User deleted";
\* afterwards the identifier has no row, the rows of all other identifiers
\* are as before (so the table is unchanged when there was no row), and
\* handling the same delete again gives the same answer and the same table.
C3_DeleteIdempotent ==
    DeleteCase =>
        /\ resp = ok("User deleted")
        /\ store[IdOf(req)] = Missing
        /\ OthersUnchanged(IdOf(req))
        /\ (before[IdOf(req)] = Missing => store = before)
        /\ post(store, req) = [resp |-> resp, store |-> store]

C3_Witness ==
    /\ DeleteCase
    /\ before[IdOf(req)] # Missing
    /\ store[IdOf(req)] = Missing
    /\ \E o \in Ids \ {IdOf(req)} : store[o] # Missing

C3_WitnessAbsent ==
    /\ DeleteCase
    /\ before[IdOf(req)] = Missing
    /\ resp = ok("User deleted")

\* Verification refuses the request: a signature header is missing or the
\* signature does not match.
SignatureFails(r) == r.headers # SignatureHeaders \/ ~r.signed

\* C4: a request whose signature verification fails is answered 400
\* "Invalid webhook signature" and the table is unchanged, whatever its body.
C4_SignatureRejected ==
    (Done /\ SignatureFails(req)) =>
        /\ resp = bad("Invalid webhook signature")
        /\ store = before

C4_Witness ==
    /\ Done
    /\ req.headers = SignatureHeaders \ {"svix-timestamp"}
    /\ req.body.t = "object"
    /\ req.body.type = JStr("user.deleted")
    /\ store[IdOf(req)] # Missing
    /\ resp = bad("Invalid webhook signature")

C4_WitnessMalformed ==
    /\ Done
    /\ ~req.signed
    /\ req.body.t = "notjson"
    /\ resp = bad("Invalid webhook signature")

\* C5: a signed request whose body breaks the envelope schema is answered
\* 400 "Invalid payload format" and the table is unchanged, for every event
\* type, "user.deleted" and unrecognized ones included.
C5_PayloadRejected ==
    (Done /\ req \in SignedOf(InvalidBodies)) =>
        /\ resp = bad("Invalid payload format")
        /\ store = before

C5_Witness ==
    /\ Done
    /\ req \in SignedOf(InvalidBodies)
    /\ req.body.t = "object"
    /\ req.body.type = JStr("user.deleted")
    /\ req.body.data.t = "obj"
    /\ req.body.data.id = Absent
    /\ \E i \in Ids : store[i] # Missing
    /\ resp = bad("Invalid payload format")

\* C6: a valid, signed envelope of any other type is answered 200
\* "Event ignored" and leaves the table unchanged, also when its data names
\* an identifier that has a row.
C6_OtherIgnored ==
    (Done /\ req \in SignedOf(IgnoredBodies)) =>
        /\ resp = ok("Event ignored")
        /\ store = before

C6_Witness ==
    /\ Done
    /\ req \in SignedOf(IgnoredBodies)
    /\ before[IdOf(req)] # Missing
    /\ resp = ok("Event ignored")

\* C10: a sync for an identifier that has a row leaves the row's locked,
\* banned and is_creator as they were and leaves every other row unchanged;
\* a row the sync inserts has the three flags false.
C10_FlagsKept ==
    (Done /\ req \in SignedOf(SyncBodies)) =>
        /\ OthersUnchanged(IdOf(req))
        /\ (before[IdOf(req)] # Missing =>
                /\ store[IdOf(req)] # Missing
                /\ SameFlags(store[IdOf(req)], before[IdOf(req)]))
        /\ (before[IdOf(req)] = Missing /\ store[IdOf(req)] # Missing =>
                /\ ~store[IdOf(req)].is_creator
                /\ ~store[IdOf(req)].locked
                /\ ~store[IdOf(req)].banned)

C10_Witness ==
    /\ UpdateCase
    /\ resp = ok("User updated")
    /\ before[IdOf(req)].locked
    /\ store[IdOf(req)].locked
    /\ store[IdOf(req)].first_name # before[IdOf(req)].first_name
    /\ \E o \in Ids \ {IdOf(req)} : store[o] # Missing

-----------------------------------------------------------------------------
(* Resolution                                                              *)

Matches == {i \in 1..Len(lst) : PyStr(lst[i].id) = ptr}

IndexPermutations(n) == {f \in [1..n -> 1..n] : \A i, k \in 1..n : f[i] = f[k] => i = k}

Reorderings == {[i \in 1..Len(lst) |-> lst[f[i]]] : f \in IndexPermutations(Len(lst))}

\* C7 as stated: empty list gives ""; some entry with the pointer's id gives
\* an entry of that id; otherwise the first entry; and with a match the
\* result is the same for every order of the list.
C7_Resolution ==
    out # Pending =>
        /\ (lst = <<>> => out.s = "")
        /\ (Matches # {} => \E i \in Matches : out.s = lst[i].value)
        /\ (lst # <<>> /\ Matches = {} => out.s = lst[1].value)
        /\ (Matches # {} =>
                \A l \in Reorderings : OrEmpty(ResolvePrimary(l, ptr)) = out.s)

\* C7 amended: with a match the result is the value of the first matching
\* entry, and it is the same for every order of the list when the matching
\* entries all carry the same value (as they do when ids are distinct).
C7_ResolutionFirstMatch ==
    out # Pending =>
        /\ (lst = <<>> => out.s = "")
        /\ (Matches # {} =>
                out.s = lst[CHOOSE i \in Matches : \A k \in Matches : i <= k].value)
        /\ (lst # <<>> /\ Matches = {} => out.s = lst[1].value)
        /\ ((Matches # {} /\ \A i, k \in Matches : lst[i].value = lst[k].value) =>
                \A l \in Reorderings : OrEmpty(ResolvePrimary(l, ptr)) = out.s)

C7_Witness ==
    /\ out # Pending
    /\ Len(lst) = 2
    /\ Matches = {2}
    /\ out.s = lst[2].value
    /\ lst[1].value # lst[2].value

C7_WitnessFallback ==
    /\ out # Pending
    /\ Len(lst) = 2
    /\ Matches = {}
    /\ ptr # PyNone
    /\ out.s = lst[1].value
    /\ lst[1].value # lst[2].value

-----------------------------------------------------------------------------
(* Last write wins                                                         *)

\* C8: after any sequence of handled events, an identifier has a row exactly
\* when the most recent sync or delete event routed for it was a sync, and
\* the row's mapped columns are those of that event.
C8_LastWriteWins ==
    \A i \in Ids :
        /\ (store[i] # Missing) <=> (last[i].t = "sync")
        /\ (store[i] # Missing /\ last[i].t = "sync") =>
                \A k \in DOMAIN last[i].fields : store[i][k] = last[i].fields[k]

-----------------------------------------------------------------------------
(* Concurrent requests on one identifier                                   *)

MappedColumns ==
    {"first_name", "last_name", "primary_email", "phone_number", "profile_image",
     "two_factor_enabled", "is_signedin", "created_at", "updated_at",
     "last_active_at"}

\* The mapped columns of row are those of the one event with defaults d.
FromOneEvent(row, d) == \A k \in MappedColumns : row[k] = d[k]

\* The table after the requests of slots order[1], order[2], ... are handled
\* one after the other, starting from tbl.
RECURSIVE Serial(_, _)
Serial(tbl, order) ==
    IF order = <<>> THEN tbl
    ELSE LET t == txs[Head(order)]
         IN  Serial(IF t.op = "sync" THEN sync_user(tbl, t.user).store
                    ELSE delete_user(tbl, Target).store,
                    Tail(order))

SlotOrders == {f \in [Slots -> Slots] : \A i, k \in Slots : f[i] = f[k] => i = k}

AllDone == txs # <<>> /\ \A s \in Slots : txs[s].pc = "done"

\* C9: in every state a reader can observe, the identifier has no row or a
\* row whose mapped columns all come from one event (one of the requests, or
\* the event that made the row they found); and when all requests have
\* answered, the table is what handling them in some serial order gives.
C9_AtomicSerializable ==
    txs # <<>> =>
        /\ \/ store[Target] = Missing
           \/ before[Target] # Missing /\ FromOneEvent(store[Target], before[Target])
           \/ \E s \in Slots :
                 /\ txs[s].op = "sync"
                 /\ FromOneEvent(store[Target], SyncDefaults(txs[s].user))
        /\ AllDone => \E f \in SlotOrders : store = Serial(before, f)

\* Two syncs raced on an identifier without a row: both found none, one
\* inserted, the other fell back to updating the row the first committed.
C9_Witness ==
    /\ AllDone
    /\ before[Target] = Missing
    /\ \E s, o \in Slots :
          /\ s # o
          /\ txs[s].op = "sync" /\ txs[o].op = "sync"
          /\ txs[s].user # txs[o].user
          /\ txs[s].resp = ok("User created")
          /\ txs[o].resp = ok("User updated")
          /\ txs[o].created = FALSE
          /\ FromOneEvent(store[Target], SyncDefaults(txs[o].user))

C9_WitnessDelete ==
    /\ AllDone
    /\ before[Target] # Missing
    /\ store[Target] = Missing
    /\ \E s, o \in Slots :
          /\ txs[s].op = "sync" /\ txs[s].resp = ok("User updated")
          /\ txs[o].op = "delete"

====
